---------------------------- MODULE Spec2Model ----------------------------
(***************************************************************************)
(* Voice-driven command sessions of the repository: the dictionary         *)
(* assistant (src/Extra_.py), the character assistant (src/Lab_10.py) and  *)
(* the bare recognizer loop (src/main1.py).                                *)
(*                                                                         *)
(* A Python str is a sequence of one-character strings, so that strip,     *)
(* lower, startswith, replace and `in` are computed as Python computes     *)
(* them.  Cyrillic text is transliterated letter by letter into ASCII:     *)
(*   naiti = "find" (ru), sohranit = "save", znachenie = "meaning",        *)
(*   primer = "example", ssylka = "link", vyhod = "exit",                  *)
(*   sluchainyi = "random", epizod = "episode", pokazat = "show",          *)
(*   razreshenie = "resolution", proishozhdenie = "origin",                *)
(*   lokaciya = "location", spisok epizodov = "list of episodes",          *)
(*   proshchayus = "saying goodbye", zakryt = "close".                     *)
(* The transliteration keeps every containment between the keywords        *)
(* (epizod is contained in spisok epizodov, and in nothing else).          *)
(***************************************************************************)
EXTENDS Naturals, Sequences, FiniteSets, TLC

VARIABLES
    prog,       \* the script that runs: "Extra", "Lab10" or "main1"
    pc,         \* Start, Listening, Decoding, Routing, Dispatching, Responding,
                \* Stopped
    stream,     \* the audio input stream: how often opened and closed
    text,       \* the utterance listen() yielded last
    pending,    \* the command the loop body has chosen for the utterance
    result,     \* the pair the handler returned
    entry,      \* DictionaryAPI.entry
    character,  \* RickAndMortyAPI.character
    files,      \* the files written so far: path -> content
    log,        \* what the loop did for the current utterance, in order
    selected0,  \* the selection when the current utterance was yielded
    stopCause,  \* why the loop stopped: exit, interrupt, exception, fatal
    heard,      \* the text of the result the frame read last finalized, None
                \* if it finalized none
    latest,     \* the record the service delivered to the last lookup that
                \* succeeded
    asked       \* the answers given since the last lookup: command -> answer

vars == <<prog, pc, stream, text, pending, result, entry, character, files,
          log, selected0, stopCause, heard, latest, asked>>

-----------------------------------------------------------------------------
(* Bounds of the inputs. *)

\* Longest free sentence heard by the dictionary assistant, in words.
MaxWords == 3

\* Longest free sentence heard by the character assistant, in words.
MaxWordsLab == 2

-----------------------------------------------------------------------------
(* Python values.  Every value carries its type, so None, a str, a list     *)
(* and a dict are distinct and comparable.                                  *)

PyNone == [py |-> "None"]
PyStr(chars) == [py |-> "str", v |-> chars]
PyList(items) == [py |-> "list", v |-> items]
PyDict(d) == [py |-> "dict", v |-> d]
PyTrue == [py |-> "bool", v |-> TRUE]
PyFalse == [py |-> "bool", v |-> FALSE]
EmptyDict == PyDict([k \in {} |-> PyNone])

\* bool(v): None, "", [] and {} are false.
Truthy(v) ==
    CASE v.py = "None" -> FALSE
      [] v.py = "bool" -> v.v
      [] v.py = "dict" -> DOMAIN v.v # {}
      [] OTHER -> Len(v.v) > 0

\* d.get(k, default) of a dict.
Get(d, k, default) == IF k \in DOMAIN d.v THEN d.v[k] ELSE default

\* str(v) as an f-string renders it.
Format(v) == IF v.py = "None" THEN <<"None">> ELSE v.v

-----------------------------------------------------------------------------
(* Python str methods on sequences of characters. *)

ToLower ==
    [E |-> "e", F |-> "f", H |-> "h", L |-> "l", M |-> "m", N |-> "n",
     P |-> "p", Q |-> "q", R |-> "r", S |-> "s", V |-> "v", Z |-> "z"]

LowerChar(c) == IF c \in DOMAIN ToLower THEN ToLower[c] ELSE c

Lower(s) == [i \in 1..Len(s) |-> LowerChar(s[i])]

IsSpace(c) == c = " "

RECURSIVE LStrip(_)
LStrip(s) ==
    IF s = <<>> THEN <<>>
    ELSE IF IsSpace(Head(s)) THEN LStrip(Tail(s)) ELSE s

RECURSIVE RStrip(_)
RStrip(s) ==
    IF s = <<>> THEN <<>>
    ELSE IF IsSpace(s[Len(s)]) THEN RStrip(SubSeq(s, 1, Len(s) - 1)) ELSE s

Strip(s) == RStrip(LStrip(s))

StartsWith(s, p) == Len(s) >= Len(p) /\ SubSeq(s, 1, Len(p)) = p

\* s.replace(old, new): every occurrence, left to right, not overlapping.
RECURSIVE Replace(_, _, _)
Replace(s, old, new) ==
    IF s = <<>> THEN <<>>
    ELSE IF StartsWith(s, old)
         THEN new \o Replace(SubSeq(s, Len(old) + 1, Len(s)), old, new)
         ELSE <<Head(s)>> \o Replace(Tail(s), old, new)

\* sub in s
Contains(s, sub) ==
    \E i \in 0..(Len(s) - Len(sub)) : SubSeq(s, i + 1, i + Len(sub)) = sub

\* " ".join(ws)
RECURSIVE Join(_)
Join(ws) ==
    IF ws = <<>> THEN <<>>
    ELSE IF Len(ws) = 1 THEN ws[1]
    ELSE ws[1] \o <<" ">> \o Join(Tail(ws))

\* The sentences of one to n words of W.
Sentences(W, n) == { Join(ws) : ws \in UNION { [1..k -> W] : k \in 1..n } }

-----------------------------------------------------------------------------
(* Words. *)

W_find == <<"f", "i", "n", "d">>
W_naiti == <<"n", "a", "i", "t", "i">>
W_save == <<"s", "a", "v", "e">>
W_sohranit == <<"s", "o", "h", "r", "a", "n", "i", "t">>
W_meaning == <<"m", "e", "a", "n", "i", "n", "g">>
W_znachenie == <<"z", "n", "a", "c", "h", "e", "n", "i", "e">>
W_example == <<"e", "x", "a", "m", "p", "l", "e">>
W_primer == <<"p", "r", "i", "m", "e", "r">>
W_link == <<"l", "i", "n", "k">>
W_ssylka == <<"s", "s", "y", "l", "k", "a">>
W_exit == <<"e", "x", "i", "t">>
W_vyhod == <<"v", "y", "h", "o", "d">>
W_quit == <<"q", "u", "i", "t">>
W_hello == <<"h", "e", "l", "l", "o">>
W_refind == <<"r", "e", "f", "i", "n", "d">>
W_sluchainyi == <<"s", "l", "u", "c", "h", "a", "i", "n", "y", "i">>
W_epizod == <<"e", "p", "i", "z", "o", "d">>
W_pokazat == <<"p", "o", "k", "a", "z", "a", "t">>
W_razreshenie == <<"r", "a", "z", "r", "e", "s", "h", "e", "n", "i", "e">>
W_proishozhdenie ==
    <<"p", "r", "o", "i", "s", "h", "o", "z", "h", "d", "e", "n", "i", "e">>
W_lokaciya == <<"l", "o", "k", "a", "c", "i", "y", "a">>
W_spisok == <<"s", "p", "i", "s", "o", "k">>
W_epizodov == <<"e", "p", "i", "z", "o", "d", "o", "v">>
W_spisok_epizodov == W_spisok \o <<" ">> \o W_epizodov
W_proshchayus == <<"p", "r", "o", "s", "h", "c", "h", "a", "y", "u", "s">>
W_zakryt == <<"z", "a", "k", "r", "y", "t">>
W_privet == <<"p", "r", "i", "v", "e", "t">>

\* A phrase as the recognizer may hand it over before it is cleaned: padded
\* with blanks, or with its first letter in upper case.
Padded(s) == <<" ">> \o s \o <<" ">>

Capital(c) ==
    IF \E u \in DOMAIN ToLower : ToLower[u] = c
    THEN CHOOSE u \in DOMAIN ToLower : ToLower[u] = c
    ELSE c

Capitalized(s) == IF s = <<>> THEN s ELSE <<Capital(Head(s))>> \o Tail(s)

Noisy(S) == S \cup { Padded(s) : s \in S } \cup { Capitalized(s) : s \in S }

-----------------------------------------------------------------------------
(* Events of one cycle, in the order the code performs them. *)

Ev(kind, arg) == [ev |-> kind, arg |-> arg]
Speak(msg) == Ev("speak", msg)
Call(fn, arg) == Ev(fn, arg)
Http(what) == Ev("http", PyStr(<<what>>))

Msg(s) == PyStr(<<s>>)

\* res.json(): the parsed body the service delivered
Json(data) == Ev("json", data)

\* the body delivered last among the calls of a handler
Delivered(calls) ==
    LET bodies == SelectSeq(calls, LAMBDA c : c.ev = "json")
    IN  bodies[Len(bodies)].arg

\* What a handler call can do: the pair it returns, the selection and the
\* files afterwards, the external calls it made, and the exception that
\* escaped it ("" when it returned).
Outcome(ret, sel, fs, calls, raised) ==
    [ret |-> ret, sel |-> sel, files |-> fs, calls |-> calls, raised |-> raised]

\* the return value of a call that raised
NoneNone == <<PyNone, PyNone>>

\* str(e) of a requests exception.
ErrText == Msg("RequestException")

-----------------------------------------------------------------------------
(* src/Extra_.py: the dictionary and its handlers. *)

BASE_URL == "https://api.dictionaryapi.dev/api/v2/entries/en/"

\* Records the dictionary service can answer with.
D_example ==
    PyDict([definition |-> Msg("a greeting"), example |-> Msg("hello there")])
D_plain == PyDict([definition |-> Msg("an expression of surprise")])
E_hello ==
    PyDict([word |-> PyStr(W_hello),
            meanings |-> PyList(<<PyDict([partOfSpeech |-> Msg("noun"),
                                          definitions |-> PyList(<<D_plain, D_example>>)])>>)])
\* the same word with no meanings at all
E_bare == PyDict([word |-> PyStr(W_hello), meanings |-> PyList(<<>>)])
\* a record without a word, a part of speech or an example
E_noword ==
    PyDict([meanings |-> PyList(<<PyDict([definitions |-> PyList(<<D_plain>>)])>>)])

\* Bodies of a 2xx answer, as res.json() returns them.
Bodies ==
    { PyList(<<E_hello>>), PyList(<<E_bare, E_hello>>), PyList(<<E_noword>>),
      PyList(<<EmptyDict>>), PyList(<<>>),
      PyDict([title |-> Msg("No Definitions Found")]) }

\* find_word that keeps an entry once one is selected
find_wordKeepsFirst(word, e, fs) ==
    { Outcome(<<PyFalse, m>>, e, fs, <<Http("GET entry")>>, "")
        : m \in {ErrText, Msg("No entry found.")} }
    \cup
    { LET calls == <<Http("GET entry"), Json(data)>>
      IN  IF data.py = "list"
          THEN IF Len(data.v) > 0
               THEN Outcome(<<PyTrue, PyNone>>, IF e = PyNone THEN data.v[1] ELSE e,
                            fs, calls, "")
               ELSE Outcome(<<PyFalse, Msg("No entry found.")>>, e, fs, calls, "")
          ELSE Outcome(<<PyNone, PyNone>>, e, fs, calls, "KeyError")
        : data \in Bodies }

\* DictionaryAPI.find_word
find_word(word, e, fs) ==
    \* requests.get or raise_for_status raises a RequestException
    { Outcome(<<PyFalse, ErrText>>, e, fs, <<Http("GET entry")>>, "") }
    \cup
    \* res.json() raises: a ValueError, which newer requests also make a
    \* RequestException
    { Outcome(<<PyFalse, m>>, e, fs, <<Http("GET entry")>>, "")
        : m \in {ErrText, Msg("No entry found.")} }
    \cup
    \* data = res.json()
    { LET calls == <<Http("GET entry"), Json(data)>>
      IN  IF data.py = "list"
          THEN IF Len(data.v) > 0
               THEN Outcome(<<PyTrue, PyNone>>, data.v[1], fs, calls, "")
               ELSE Outcome(<<PyFalse, Msg("No entry found.")>>, e, fs, calls, "")
          ELSE Outcome(<<PyNone, PyNone>>, e, fs, calls, "KeyError")
        : data \in Bodies }

\* json.dump(entry, f): the JSON document written to the file, an object
\* for a dict, an array for a list, a string, a number, a literal
RECURSIVE JsonDump(_)
JsonDump(v) ==
    CASE v.py = "dict" ->
           [json |-> "object", members |-> [k \in DOMAIN v.v |-> JsonDump(v.v[k])]]
      [] v.py = "list" ->
           [json |-> "array", items |-> [i \in 1..Len(v.v) |-> JsonDump(v.v[i])]]
      [] v.py = "str" -> [json |-> "string", chars |-> v.v]
      [] v.py = "int" -> [json |-> "number", digits |-> v.v]
      [] v.py = "bool" -> [json |-> IF v.v THEN "true" ELSE "false"]
      [] v.py = "None" -> [json |-> "null"]

\* DictionaryAPI.save
save(e, fs) ==
    IF ~Truthy(e)
    THEN { Outcome(<<PyFalse, Msg("No word selected.")>>, e, fs, <<>>, "") }
    ELSE LET word == Get(e, "word", Msg("entry"))
             path == PyStr(<<"dictionary_entries/">> \o Format(word) \o <<".json">>)
         IN  { Outcome(<<PyTrue, path>>, e, (path :> JsonDump(e)) @@ fs,
                       <<Ev("write", path)>>, "") }

RECURSIVE Flatten(_)
Flatten(ss) == IF Len(ss) = 0 THEN <<>> ELSE Head(ss) \o Flatten(Tail(ss))

MeaningsOf(e) == Get(e, "meanings", PyList(<<>>)).v
DefinitionsOf(m) == Get(m, "definitions", PyList(<<>>)).v

\* the definitions of all meanings, each with its meaning, in order
AllDefinitions(e) ==
    Flatten([i \in 1..Len(MeaningsOf(e)) |->
               [j \in 1..Len(DefinitionsOf(MeaningsOf(e)[i])) |->
                  <<MeaningsOf(e)[i], DefinitionsOf(MeaningsOf(e)[i])[j]>>]])

\* meaning() that drops the selection once it has answered
meaningOnce(e, fs) ==
    IF ~Truthy(e)
    THEN { Outcome(<<PyNone, Msg("No word selected.")>>, e, fs, <<>>, "") }
    ELSE { Outcome(<<PyList(<<>>), PyNone>>, PyNone, fs, <<>>, "") }

\* DictionaryAPI.meaning
meaning(e, fs) ==
    IF ~Truthy(e)
    THEN { Outcome(<<PyNone, Msg("No word selected.")>>, e, fs, <<>>, "") }
    ELSE LET ds == AllDefinitions(e)
             line(md) == PyStr(<<"(">> \o Get(md[1], "partOfSpeech", PyStr(<<>>)).v
                               \o <<") ">> \o Format(Get(md[2], "definition", PyNone)))
         IN  { Outcome(<<PyList([i \in 1..Len(ds) |-> line(ds[i])]), PyNone>>,
                       e, fs, <<>>, "") }

\* example() without its own check of the selection
exampleUnchecked(e, fs) ==
    LET ds == IF Truthy(e) THEN AllDefinitions(e) ELSE <<>>
        exs == SelectSeq([i \in 1..Len(ds) |-> Get(ds[i][2], "example", PyNone)],
                         Truthy)
    IN  IF Len(exs) > 0
        THEN { Outcome(<<exs[1], PyNone>>, e, fs, <<>>, "") }
        ELSE { Outcome(<<PyNone, Msg("No example found.")>>, e, fs, <<>>, "") }

\* DictionaryAPI.example
example(e, fs) ==
    IF ~Truthy(e)
    THEN { Outcome(<<PyNone, Msg("No word selected.")>>, e, fs, <<>>, "") }
    ELSE LET ds == AllDefinitions(e)
             exs == SelectSeq([i \in 1..Len(ds) |-> Get(ds[i][2], "example", PyNone)],
                              Truthy)
         IN  IF Len(exs) > 0
             THEN { Outcome(<<exs[1], PyNone>>, e, fs, <<>>, "") }
             ELSE { Outcome(<<PyNone, Msg("No example found.")>>, e, fs, <<>>, "") }

\* DictionaryAPI.link
link(e, fs) ==
    IF ~Truthy(e)
    THEN { Outcome(<<PyNone, Msg("No word selected.")>>, e, fs, <<>>, "") }
    ELSE { Outcome(<<PyStr(<<BASE_URL>> \o Format(Get(e, "word", PyNone))), PyNone>>,
                   e, fs, <<>>, "") }

-----------------------------------------------------------------------------
(* src/Extra_.py: the session loop. *)

\* the table with the alias 'quit' left out
COMMANDS_ExtraNoQuit ==
    (W_save :> "save") @@ (W_sohranit :> "save") @@
    (W_meaning :> "meaning") @@ (W_znachenie :> "meaning") @@
    (W_example :> "example") @@ (W_primer :> "example") @@
    (W_link :> "link") @@ (W_ssylka :> "link") @@
    (W_exit :> "exit") @@ (W_vyhod :> "exit")

COMMANDS_Extra ==
    (W_save :> "save") @@ (W_sohranit :> "save") @@
    (W_meaning :> "meaning") @@ (W_znachenie :> "meaning") @@
    (W_example :> "example") @@ (W_primer :> "example") @@
    (W_link :> "link") @@ (W_ssylka :> "link") @@
    (W_exit :> "exit") @@ (W_vyhod :> "exit") @@ (W_quit :> "exit")

TriggerFind == W_find \o <<" ">>
TriggerNaiti == W_naiti \o <<" ">>

\* What the recognizer can finalize: the alias phrases, free sentences, and
\* the same as the decoder may hand them over; an empty or blank text too.
ExtraWords == {W_find, W_exit, W_meaning, W_hello, W_refind}

\* utterances with the second trigger word
ExtraNaiti ==
    {W_naiti, W_naiti \o <<" ">> \o W_hello, W_naiti \o <<" ">> \o W_exit,
     W_naiti \o <<" ">> \o W_exit \o <<" ">> \o W_meaning}

ExtraPhrases ==
    {W_save, W_sohranit, W_meaning, W_znachenie, W_example, W_primer, W_link,
     W_ssylka, W_exit, W_vyhod, W_quit}

ExtraRaw ==
    Noisy(ExtraPhrases) \cup ExtraNaiti \cup Sentences(ExtraWords, MaxWords)
    \cup {<<>>, <<" ">>}

NoCommand == [cmd |-> "", param |-> PyNone]
NoResult == <<PyNone, PyNone>>
NoAnswers == [c \in {} |-> NoResult]

\* The commands that only read the selected entry.
Queries == {"meaning", "example", "link"}

\* the trigger word tested without its trailing blank
Extra_WordLooseTrigger(t) ==
    IF StartsWith(t, W_find) THEN PyStr(Strip(Replace(t, TriggerFind, <<>>)))
    ELSE IF StartsWith(t, W_naiti) THEN PyStr(Strip(Replace(t, TriggerNaiti, <<>>)))
    ELSE PyNone

\* lines 141-146: the word to look up, None without a trigger prefix
Extra_Word(t) ==
    IF StartsWith(t, TriggerFind) THEN PyStr(Strip(Replace(t, TriggerFind, <<>>)))
    ELSE IF StartsWith(t, TriggerNaiti) THEN PyStr(Strip(Replace(t, TriggerNaiti, <<>>)))
    ELSE PyNone

\* COMMANDS looked up by prefix instead of by the whole utterance
Extra_ActionByPrefix(t) ==
    LET hits == { a \in DOMAIN COMMANDS_Extra : StartsWith(Strip(t), a) }
    IN  IF hits # {} THEN COMMANDS_Extra[CHOOSE a \in hits : TRUE] ELSE ""

\* COMMANDS.get(cmd)
Extra_Action(t) ==
    IF Strip(t) \in DOMAIN COMMANDS_Extra THEN COMMANDS_Extra[Strip(t)] ELSE ""

UnknownMsg ==
    Msg("Unknown command. Use save, meaning, example, link, or exit.")

\* The handler the loop calls for a command.
Extra_Handler(p, e, fs) ==
    CASE p.cmd = "lookup" -> find_word(p.param.v, e, fs)
      [] p.cmd = "save" -> save(e, fs)
      [] p.cmd = "meaning" -> meaning(e, fs)
      [] p.cmd = "example" -> example(e, fs)
      [] p.cmd = "link" -> link(e, fs)

\* What the loop does with the handler's return value (lines 150, 162-184).
Extra_Render(p, ret) ==
    CASE p.cmd = "lookup" ->
           <<Speak(IF Truthy(ret[1])
                   THEN PyStr(<<"Word '">> \o p.param.v \o <<"' found.">>)
                   ELSE PyStr(<<"Error: ">> \o Format(ret[2])))>>
      [] p.cmd = "save" ->
           <<Speak(IF Truthy(ret[1]) THEN PyStr(<<"Saved to ">> \o Format(ret[2]))
                   ELSE ret[2])>>
      [] p.cmd = "meaning" ->
           IF Truthy(ret[1]) THEN [i \in 1..Len(ret[1].v) |-> Speak(ret[1].v[i])]
           ELSE <<Speak(ret[2])>>
      [] p.cmd = "example" ->
           <<Speak(IF Truthy(ret[1]) THEN ret[1] ELSE ret[2])>>
      [] p.cmd = "link" ->
           IF Truthy(ret[1])
           THEN <<Ev("open", ret[1]), Speak(PyStr(<<"Opened link: ">> \o ret[1].v))>>
           ELSE <<Speak(ret[2])>>

\* Recognizer.__init__ and the prompts: the model loads and the stream opens,
\* or construction fails and the script ends.
Extra_Start ==
    /\ prog = "Extra" /\ pc = "Start"
    /\ \/ /\ pc' = "Listening"
          /\ stream' = [stream EXCEPT !.opened = @ + 1]
          /\ log' = <<Speak(Msg("Dictionary assistant activated.")),
                      Speak(Msg("Then use commands."))>>
          /\ UNCHANGED stopCause
       \/ /\ pc' = "Stopped" /\ stopCause' = "fatal"
          /\ UNCHANGED <<stream, log>>
    /\ UNCHANGED <<prog, asked, heard, latest, text, pending, result, entry, character, files, selected0>>

\* Recognizer.listen, line 52: the loop body is done with the last utterance
\* and the generator reads the next frame.
Extra_Read ==
    /\ prog = "Extra" /\ pc = "Listening"
    /\ pc' = "Decoding"
    /\ text' = <<>> /\ log' = <<>> /\ pending' = NoCommand /\ result' = NoResult
    /\ selected0' = entry /\ heard' = PyNone
    /\ UNCHANGED <<prog, asked, latest, stream, entry, character, files, stopCause>>

\* listen() without the test of line 56: an empty text is yielded too
Extra_ListenYieldsEmpty ==
    /\ prog = "Extra" /\ pc = "Decoding"
    /\ \/ pc' = "Listening" /\ UNCHANGED <<text, heard>>
       \/ \E raw \in ExtraRaw :
            /\ heard' = PyStr(raw)
            /\ text' = Lower(Strip(raw)) /\ pc' = "Routing"
    /\ UNCHANGED <<prog, asked, latest, stream, pending, result, entry, character,
                   files, log, selected0, stopCause>>

\* Recognizer.listen, lines 53-57: the frame finalizes nothing, or it
\* finalizes a result, whose text is yielded in lower case unless it is
\* empty once stripped.
Extra_Listen ==
    /\ prog = "Extra" /\ pc = "Decoding"
    /\ \/ pc' = "Listening" /\ UNCHANGED <<text, heard>>
       \/ \E raw \in ExtraRaw :
            LET t == Strip(raw) IN
            /\ heard' = PyStr(raw)
            /\ IF t # <<>>
               THEN text' = Lower(t) /\ pc' = "Routing"
               ELSE pc' = "Listening" /\ UNCHANGED text
    /\ UNCHANGED <<prog, asked, latest, stream, pending, result, entry, character, files, log,
                   selected0, stopCause>>

\* lines 141-160: trigger prefix, alias table, exit, unknown command
Extra_Route ==
    /\ prog = "Extra" /\ pc = "Routing"
    /\ LET word == Extra_Word(text)
           action == Extra_Action(text)
       IN  IF Truthy(word)
           THEN /\ pending' = [cmd |-> "lookup", param |-> word]
                /\ pc' = "Dispatching"
                /\ UNCHANGED <<log, stopCause>>
           ELSE IF action = "exit"
           THEN /\ log' = Append(log, Speak(Msg("Goodbye!")))
                /\ pc' = "Stopped" /\ stopCause' = "exit"
                /\ UNCHANGED pending
           ELSE IF action = ""
           THEN /\ log' = Append(log, Speak(UnknownMsg))
                /\ pc' = "Listening"
                /\ UNCHANGED <<pending, stopCause>>
           ELSE /\ pending' = [cmd |-> action, param |-> PyNone]
                /\ pc' = "Dispatching"
                /\ UNCHANGED <<log, stopCause>>
    /\ UNCHANGED <<prog, asked, heard, latest, stream, text, result, entry, character, files, selected0>>

\* the call handed to a worker, the loop going back to listen at once
Extra_DispatchInBackground ==
    /\ prog = "Extra" /\ pc = "Dispatching"
    /\ \E o \in Extra_Handler(pending, entry, files) :
         /\ log' = log \o <<Call(pending.cmd, pending.param)>> \o o.calls
         /\ entry' = o.sel
         /\ files' = o.files
         /\ result' = o.ret
         /\ pc' = "Listening"
    /\ UNCHANGED <<prog, asked, heard, latest, stream, text, pending, character,
                   selected0, stopCause>>

\* the call of the DictionaryAPI method
Extra_Dispatch ==
    /\ prog = "Extra" /\ pc = "Dispatching"
    /\ \E o \in Extra_Handler(pending, entry, files) :
         /\ log' = log \o <<Call(pending.cmd, pending.param)>> \o o.calls
         /\ entry' = o.sel
         /\ files' = o.files
         /\ IF o.raised = ""
            THEN result' = o.ret /\ pc' = "Responding" /\ UNCHANGED stopCause
            ELSE pc' = "Stopped" /\ stopCause' = "exception" /\ UNCHANGED result
         /\ latest' = IF pending.cmd = "lookup" /\ o.raised = ""
                           /\ o.ret = <<PyTrue, PyNone>>
                        THEN Delivered(o.calls).v[1]
                        ELSE latest
    /\ asked' = IF pending.cmd = "lookup" THEN NoAnswers ELSE asked
    /\ UNCHANGED <<prog, heard, stream, text, pending, character, selected0>>

\* speaking the answer, and opening the link
Extra_Respond ==
    /\ prog = "Extra" /\ pc = "Responding"
    /\ log' = log \o Extra_Render(pending, result)
    /\ pc' = "Listening"
    /\ asked' = IF pending.cmd \in Queries THEN (pending.cmd :> result) @@ asked
                ELSE asked
    /\ UNCHANGED <<prog, heard, latest, stream, text, pending, result, entry, character, files,
                   selected0, stopCause>>

-----------------------------------------------------------------------------
(* src/Lab_10.py: the character service and its handlers. *)

PyInt(n) == [py |-> "int", v |-> n]

\* total used when the count query gives none (line 81)
FallbackCount == 826

\* Records the character service can answer with.
Ch_rick ==
    PyDict([name |-> PyStr(<<"R", "i", "c", "k">>),
            image |-> Msg("avatar/1.jpeg"),
            episode |-> PyList(<<Msg("episode/1"), Msg("episode/2")>>),
            origin |-> PyDict([name |-> Msg("Earth")]),
            location |-> PyDict([name |-> Msg("Citadel")])])
\* a name with punctuation, and no episode
Ch_mr ==
    PyDict([name |-> PyStr(<<"M", "r", ".", " ", "P">>),
            image |-> Msg("avatar/2.jpeg"),
            episode |-> PyList(<<>>),
            origin |-> PyDict([name |-> Msg("unknown")]),
            location |-> PyDict([name |-> Msg("Earth")])])
\* an incomplete record: a name and nothing else
Ch_partial == PyDict([name |-> PyStr(<<"M", "o", "r", "t", "y">>)])
\* a record without a name
Ch_noname == PyDict([id |-> PyInt(7)])

CharacterBodies == {Ch_rick, Ch_mr, Ch_partial, Ch_noname}

\* Answers to the count query.
InfoBodies ==
    { PyDict([info |-> PyDict([count |-> PyInt(2)])]),
      PyDict([info |-> PyDict([pages |-> PyInt(1)])]),
      PyDict([results |-> PyList(<<>>)]) }

\* What the image URL can deliver: a picture, or bytes that are none.
ImageBodies == {"jpeg", "garbage"}

\* RickAndMortyAPI._fetch: the parsed body, {'error': str(e)} on a
\* RequestException, or the ValueError of res.json() where requests does not
\* make it a RequestException
Fetch(bodies) ==
    { [raised |-> "", data |-> b] : b \in bodies }
    \cup { [raised |-> "", data |-> PyDict([error |-> ErrText])] }
    \cup { [raised |-> "ValueError", data |-> PyNone] }

\* RickAndMortyAPI._fetch_from_url: the parsed body, {} on a RequestException
FetchFromUrl(bodies) ==
    { [raised |-> "", data |-> b] : b \in bodies }
    \cup { [raised |-> "", data |-> EmptyDict] }
    \cup { [raised |-> "ValueError", data |-> PyNone] }

EpisodeBodies == { PyDict([name |-> Msg("Pilot")]), PyDict([id |-> PyInt(1)]) }

NotSelected == Msg("Character not selected.")

\* random_character that assigns the character before it tests for an error
random_characterAssignsFirst(c, fs) ==
    UNION {
      IF info.raised # ""
      THEN { Outcome(NoneNone, c, fs, <<Http("GET character")>>, info.raised) }
      ELSE LET total == Get(Get(info.data, "info", EmptyDict), "count",
                            PyInt(FallbackCount))
               calls == <<Http("GET character"), Http("GET character/id")>>
           IN  IF total.v < 1
               THEN { Outcome(NoneNone, c, fs, <<Http("GET character")>>, "ValueError") }
               ELSE { IF f.raised # ""
                      THEN Outcome(NoneNone, c, fs, calls, f.raised)
                      ELSE IF "error" \in DOMAIN f.data.v
                      THEN Outcome(<<PyNone, f.data.v["error"]>>, f.data, fs, calls, "")
                      ELSE IF "name" \in DOMAIN f.data.v
                      THEN Outcome(<<f.data.v["name"], PyNone>>, f.data, fs,
                                   Append(calls, Json(f.data)), "")
                      ELSE Outcome(NoneNone, f.data, fs, Append(calls, Json(f.data)),
                                   "KeyError")
                        : f \in Fetch(CharacterBodies) }
        : info \in Fetch(InfoBodies) }

\* RickAndMortyAPI.random_character
random_character(c, fs) ==
    UNION {
      IF info.raised # ""
      THEN { Outcome(NoneNone, c, fs, <<Http("GET character")>>, info.raised) }
      ELSE LET total == Get(Get(info.data, "info", EmptyDict), "count",
                            PyInt(FallbackCount))
               calls == <<Http("GET character"), Http("GET character/id")>>
           IN  IF total.v < 1
               THEN { Outcome(NoneNone, c, fs, <<Http("GET character")>>, "ValueError") }
               ELSE { IF f.raised # ""
                      THEN Outcome(NoneNone, c, fs, calls, f.raised)
                      ELSE IF "error" \in DOMAIN f.data.v
                      THEN Outcome(<<PyNone, f.data.v["error"]>>, c, fs, calls, "")
                      ELSE IF "name" \in DOMAIN f.data.v
                      THEN Outcome(<<f.data.v["name"], PyNone>>, f.data, fs,
                                   Append(calls, Json(f.data)), "")
                      ELSE Outcome(NoneNone, f.data, fs, Append(calls, Json(f.data)),
                                   "KeyError")
                        : f \in Fetch(CharacterBodies) }
        : info \in Fetch(InfoBodies) }

IsAlnum(ch) == ch \notin {" ", ".", "_", "-", "'"}

\* ''.join(c for c in name if c.isalnum() or c in (' ', '_')).strip()
SafeName(name) == Strip(SelectSeq(name, LAMBDA ch : IsAlnum(ch) \/ ch \in {" ", "_"}))

\* RickAndMortyAPI.save_image
save_image(c, fs) ==
    IF ~Truthy(c) THEN { Outcome(<<PyNone, NotSelected>>, c, fs, <<>>, "") }
    ELSE IF "image" \notin DOMAIN c.v THEN { Outcome(NoneNone, c, fs, <<>>, "KeyError") }
    ELSE { Outcome(NoneNone, c, fs, <<Http("GET image")>>, "RequestException") }
         \cup
         { LET path == PyStr(<<"images/">> \o SafeName(c.v["name"].v) \o <<".jpg">>)
           IN  Outcome(<<path, PyNone>>, c, (path :> [bytes |-> b]) @@ fs,
                       <<Http("GET image"), Ev("write", path)>>, "")
             : b \in ImageBodies }

\* RickAndMortyAPI.first_episode
first_episode(c, fs) ==
    IF ~Truthy(c) THEN { Outcome(<<PyNone, NotSelected>>, c, fs, <<>>, "") }
    ELSE IF "episode" \notin DOMAIN c.v THEN { Outcome(NoneNone, c, fs, <<>>, "KeyError") }
    ELSE IF Len(c.v["episode"].v) = 0
    THEN { Outcome(NoneNone, c, fs, <<>>, "IndexError") }
    ELSE { IF ep.raised # ""
           THEN Outcome(NoneNone, c, fs, <<Http("GET episode")>>, ep.raised)
           ELSE Outcome(<<Get(ep.data, "name", PyNone), PyNone>>, c, fs,
                        <<Http("GET episode")>>, "")
             : ep \in FetchFromUrl(EpisodeBodies) }

\* RickAndMortyAPI.show_image
show_image(c, fs) ==
    IF ~Truthy(c) THEN { Outcome(<<PyNone, NotSelected>>, c, fs, <<>>, "") }
    ELSE IF "image" \notin DOMAIN c.v THEN { Outcome(NoneNone, c, fs, <<>>, "KeyError") }
    ELSE { Outcome(NoneNone, c, fs, <<Http("GET image")>>, "RequestException"),
           \* Image.open refuses the bytes
           Outcome(NoneNone, c, fs, <<Http("GET image")>>, "UnidentifiedImageError"),
           \* img.show() finds no viewer
           Outcome(NoneNone, c, fs, <<Http("GET image"), Ev("show", Msg("failed"))>>,
                   "OSError"),
           Outcome(<<Msg("Image displayed."), PyNone>>, c, fs,
                   <<Http("GET image"), Ev("show", Msg("displayed"))>>, "") }

\* RickAndMortyAPI.image_resolution
image_resolution(c, fs) ==
    IF ~Truthy(c) THEN { Outcome(<<PyNone, NotSelected>>, c, fs, <<>>, "") }
    ELSE IF "image" \notin DOMAIN c.v THEN { Outcome(NoneNone, c, fs, <<>>, "KeyError") }
    ELSE { Outcome(NoneNone, c, fs, <<Http("GET image")>>, "RequestException"),
           Outcome(NoneNone, c, fs, <<Http("GET image")>>, "UnidentifiedImageError"),
           Outcome(<<Msg("300x300"), PyNone>>, c, fs, <<Http("GET image")>>, "") }

\* c[field]['name'] of origin and location
NameOf(c, field, fs) ==
    IF ~Truthy(c) THEN { Outcome(<<PyNone, NotSelected>>, c, fs, <<>>, "") }
    ELSE IF field \notin DOMAIN c.v THEN { Outcome(NoneNone, c, fs, <<>>, "KeyError") }
    ELSE { Outcome(<<c.v[field].v["name"], PyNone>>, c, fs, <<>>, "") }

\* RickAndMortyAPI.origin
origin(c, fs) == NameOf(c, "origin", fs)

\* RickAndMortyAPI.location
location(c, fs) == NameOf(c, "location", fs)

\* RickAndMortyAPI.episodes_list: one fetch per episode, each with its own
\* outcome
episodes_list(c, fs) ==
    IF ~Truthy(c) THEN { Outcome(<<PyNone, NotSelected>>, c, fs, <<>>, "") }
    ELSE IF "episode" \notin DOMAIN c.v THEN { Outcome(NoneNone, c, fs, <<>>, "KeyError") }
    ELSE LET n == Len(c.v["episode"].v)
             answers == [1..n -> FetchFromUrl(EpisodeBodies)]
             calls == [i \in 1..n |-> Http("GET episode")]
         IN  { IF \E i \in 1..n : a[i].raised # ""
               THEN Outcome(NoneNone, c, fs, calls, "ValueError")
               ELSE Outcome(<<PyList([i \in 1..n |-> Get(a[i].data, "name", PyNone)]),
                              PyNone>>, c, fs, calls, "")
                 : a \in answers }

-----------------------------------------------------------------------------
(* src/Lab_10.py: the session loop. *)

COMMANDS_Lab10 ==
    (W_sluchainyi :> "random") @@ (W_sohranit :> "save") @@
    (W_epizod :> "first_ep") @@ (W_pokazat :> "show_img") @@
    (W_razreshenie :> "resolution") @@ (W_proishozhdenie :> "origin") @@
    (W_lokaciya :> "location") @@ (W_spisok_epizodov :> "list_eps") @@
    (W_vyhod :> "exit")

LabWords ==
    {W_vyhod, W_proshchayus, W_sluchainyi, W_sohranit, W_epizod, W_spisok, W_privet}

LabPhrases ==
    {W_sluchainyi, W_sohranit, W_epizod, W_pokazat, W_razreshenie,
     W_proishozhdenie, W_lokaciya, W_spisok_epizodov, W_vyhod}

LabRaw ==
    Noisy(LabPhrases) \cup Sentences(LabWords, MaxWordsLab)
    \cup {<<>>, <<" ">>}

\* the chain with its last elif turned into the else
Lab10_CommandNoElse(t) ==
    LET cmd == Lower(t) IN
    IF Contains(cmd, W_vyhod) \/ Contains(cmd, W_proshchayus) THEN "exit"
    ELSE IF Contains(cmd, W_sluchainyi) THEN "random"
    ELSE IF Contains(cmd, W_sohranit) THEN "save"
    ELSE IF Contains(cmd, W_epizod) THEN "first_ep"
    ELSE IF Contains(cmd, W_spisok_epizodov) THEN "list_eps"
    ELSE IF Contains(cmd, W_pokazat) THEN "show_img"
    ELSE IF Contains(cmd, W_razreshenie) THEN "resolution"
    ELSE IF Contains(cmd, W_proishozhdenie) THEN "origin"
    ELSE "location"

\* the chain with the test for the exit words moved to its end
Lab10_CommandExitLast(t) ==
    LET cmd == Lower(t) IN
    IF Contains(cmd, W_sluchainyi) THEN "random"
    ELSE IF Contains(cmd, W_sohranit) THEN "save"
    ELSE IF Contains(cmd, W_epizod) THEN "first_ep"
    ELSE IF Contains(cmd, W_spisok_epizodov) THEN "list_eps"
    ELSE IF Contains(cmd, W_pokazat) THEN "show_img"
    ELSE IF Contains(cmd, W_razreshenie) THEN "resolution"
    ELSE IF Contains(cmd, W_proishozhdenie) THEN "origin"
    ELSE IF Contains(cmd, W_lokaciya) THEN "location"
    ELSE IF Contains(cmd, W_vyhod) \/ Contains(cmd, W_proshchayus) THEN "exit"
    ELSE ""

\* lines 175-213: the branch the if/elif chain takes for cmd = text.lower()
Lab10_Command(t) ==
    LET cmd == Lower(t) IN
    IF Contains(cmd, W_vyhod) \/ Contains(cmd, W_proshchayus) THEN "exit"
    ELSE IF Contains(cmd, W_sluchainyi) THEN "random"
    ELSE IF Contains(cmd, W_sohranit) THEN "save"
    ELSE IF Contains(cmd, W_epizod) THEN "first_ep"
    ELSE IF Contains(cmd, W_spisok_epizodov) THEN "list_eps"
    ELSE IF Contains(cmd, W_pokazat) THEN "show_img"
    ELSE IF Contains(cmd, W_razreshenie) THEN "resolution"
    ELSE IF Contains(cmd, W_proishozhdenie) THEN "origin"
    ELSE IF Contains(cmd, W_lokaciya) THEN "location"
    ELSE ""

\* The RickAndMortyAPI method each branch calls.
Lab10_Handler(p, c, fs) ==
    CASE p.cmd = "random" -> random_character(c, fs)
      [] p.cmd = "save" -> save_image(c, fs)
      [] p.cmd = "first_ep" -> first_episode(c, fs)
      [] p.cmd = "list_eps" -> episodes_list(c, fs)
      [] p.cmd = "show_img" -> show_image(c, fs)
      [] p.cmd = "resolution" -> image_resolution(c, fs)
      [] p.cmd = "origin" -> origin(c, fs)
      [] p.cmd = "location" -> location(c, fs)

\* ', '.join(eps)
RECURSIVE JoinComma(_)
JoinComma(items) ==
    IF Len(items) = 0 THEN <<>>
    ELSE IF Len(items) = 1 THEN items[1].v
    ELSE items[1].v \o <<", ">> \o JoinComma(Tail(items))

NotRecognized == Msg("Komanda ne raspoznana. Poprobuite snova.")

\* What each branch speaks: value if not err else err.  Joining a list with
\* a None in it raises.
Lab10_Render(p, ret) ==
    IF Truthy(ret[2]) THEN [events |-> <<Speak(ret[2])>>, raised |-> ""]
    ELSE CASE p.cmd = "save" ->
                [events |-> <<Speak(PyStr(<<"Sohraneno: ">> \o Format(ret[1])))>>,
                 raised |-> ""]
           [] p.cmd = "resolution" ->
                [events |-> <<Speak(PyStr(<<"Razreshenie: ">> \o Format(ret[1])))>>,
                 raised |-> ""]
           [] p.cmd = "list_eps" ->
                IF \E i \in 1..Len(ret[1].v) : ret[1].v[i].py # "str"
                THEN [events |-> <<>>, raised |-> "TypeError"]
                ELSE [events |-> <<Speak(PyStr(JoinComma(ret[1].v)))>>, raised |-> ""]
           [] OTHER -> [events |-> <<Speak(ret[1])>>, raised |-> ""]

\* Recognizer.__init__ and the prompts
Lab10_Start ==
    /\ prog = "Lab10" /\ pc = "Start"
    /\ \/ /\ pc' = "Listening"
          /\ stream' = [stream EXCEPT !.opened = @ + 1]
          /\ log' = <<Speak(Msg("Golosovoi assistent Rik i Morti aktivirovan.")),
                      Speak(Msg("Komandy: ..."))>>
          /\ UNCHANGED stopCause
       \/ /\ pc' = "Stopped" /\ stopCause' = "fatal"
          /\ UNCHANGED <<stream, log>>
    /\ UNCHANGED <<prog, asked, heard, latest, text, pending, result, entry, character, files, selected0>>

\* Recognizer.listen, line 55: the next frame is read
Lab10_Read ==
    /\ prog = "Lab10" /\ pc = "Listening"
    /\ pc' = "Decoding"
    /\ text' = <<>> /\ log' = <<>> /\ pending' = NoCommand /\ result' = NoResult
    /\ selected0' = character /\ heard' = PyNone
    /\ UNCHANGED <<prog, asked, latest, stream, entry, character, files, stopCause>>

\* Recognizer.listen, lines 56-60: the stripped text of a finalized result is
\* yielded as it is, unless it is empty
Lab10_Listen ==
    /\ prog = "Lab10" /\ pc = "Decoding"
    /\ \/ pc' = "Listening" /\ UNCHANGED <<text, heard>>
       \/ \E raw \in LabRaw :
            LET t == Strip(raw) IN
            /\ heard' = PyStr(raw)
            /\ IF t # <<>>
               THEN text' = t /\ pc' = "Routing"
               ELSE pc' = "Listening" /\ UNCHANGED text
    /\ UNCHANGED <<prog, asked, latest, stream, pending, result, entry, character, files, log,
                   selected0, stopCause>>

\* lines 175-213: exit, the branch taken, or the not-recognized message
Lab10_Route ==
    /\ prog = "Lab10" /\ pc = "Routing"
    /\ LET c == Lab10_Command(text)
       IN  IF c = "exit"
           THEN /\ log' = Append(log, Speak(Msg("Do skoryh vstrech!")))
                /\ pc' = "Stopped" /\ stopCause' = "exit"
                /\ UNCHANGED pending
           ELSE IF c = ""
           THEN /\ log' = Append(log, Speak(NotRecognized))
                /\ pc' = "Listening"
                /\ UNCHANGED <<pending, stopCause>>
           ELSE /\ pending' = [cmd |-> c, param |-> PyNone]
                /\ pc' = "Dispatching"
                /\ UNCHANGED <<log, stopCause>>
    /\ UNCHANGED <<prog, asked, heard, latest, stream, text, result, entry, character, files, selected0>>

\* the call of the RickAndMortyAPI method
Lab10_Dispatch ==
    /\ prog = "Lab10" /\ pc = "Dispatching"
    /\ \E o \in Lab10_Handler(pending, character, files) :
         /\ log' = log \o <<Call(pending.cmd, pending.param)>> \o o.calls
         /\ character' = o.sel
         /\ files' = o.files
         /\ IF o.raised = ""
            THEN result' = o.ret /\ pc' = "Responding" /\ UNCHANGED stopCause
            ELSE pc' = "Stopped" /\ stopCause' = "exception" /\ UNCHANGED result
         /\ latest' = IF pending.cmd = "random" /\ o.raised = ""
                           /\ o.ret[2] = PyNone
                        THEN Delivered(o.calls)
                        ELSE latest
    /\ UNCHANGED <<prog, asked, heard, stream, text, pending, entry, selected0>>

\* speaking the answer
Lab10_Respond ==
    /\ prog = "Lab10" /\ pc = "Responding"
    /\ LET r == Lab10_Render(pending, result)
       IN  /\ log' = log \o r.events
           /\ IF r.raised = ""
              THEN pc' = "Listening" /\ UNCHANGED stopCause
              ELSE pc' = "Stopped" /\ stopCause' = "exception"
    /\ UNCHANGED <<prog, asked, heard, latest, stream, text, pending, result, entry, character, files,
                   selected0>>

-----------------------------------------------------------------------------
(* src/main1.py: the recognizer loop. *)

MainWords == {W_zakryt, W_privet}

\* answer['text'] is neither stripped nor lowered here
MainRaw == Noisy(MainWords) \cup Sentences(MainWords, MaxWordsLab) \cup {<<>>, <<" ">>}

\* Recognize.__init__, speak('Starting') between stop_stream and start_stream
Main1_Start ==
    /\ prog = "main1" /\ pc = "Start"
    /\ \/ /\ pc' = "Listening"
          /\ stream' = [stream EXCEPT !.opened = @ + 1]
          /\ log' = <<Ev("stop_stream", PyNone), Speak(Msg("Starting")),
                      Ev("start_stream", PyNone)>>
          /\ UNCHANGED stopCause
       \/ /\ pc' = "Stopped" /\ stopCause' = "fatal"
          /\ UNCHANGED <<stream, log>>
    /\ UNCHANGED <<prog, asked, heard, latest, text, pending, result, entry, character, files, selected0>>

\* Recognize.listen, line 47: the next frame is read
Main1_Read ==
    /\ prog = "main1" /\ pc = "Listening"
    /\ pc' = "Decoding"
    /\ text' = <<>> /\ log' = <<>> /\ heard' = PyNone
    /\ UNCHANGED <<prog, asked, latest, stream, pending, result, entry, character, files,
                   selected0, stopCause>>

\* Recognize.listen, lines 48-51: answer['text'] of a finalized result is
\* yielded when it is not empty
Main1_Listen ==
    /\ prog = "main1" /\ pc = "Decoding"
    /\ \/ pc' = "Listening" /\ UNCHANGED <<text, heard>>
       \/ \E raw \in MainRaw :
            /\ heard' = PyStr(raw)
            /\ IF raw # <<>>
               THEN text' = raw /\ pc' = "Routing"
               ELSE pc' = "Listening" /\ UNCHANGED text
    /\ UNCHANGED <<prog, asked, latest, stream, pending, result, entry, character, files, log,
                   selected0, stopCause>>

\* lines 65-70: quit on the exit word, print anything else
Main1_Route ==
    /\ prog = "main1" /\ pc = "Routing"
    /\ IF text = W_zakryt
       THEN /\ log' = Append(log, Speak(Msg("Byvai, ihtiandr")))
            /\ pc' = "Stopped" /\ stopCause' = "exit"
       ELSE /\ log' = Append(log, Ev("print", PyStr(text)))
            /\ pc' = "Listening"
            /\ UNCHANGED stopCause
    /\ UNCHANGED <<prog, asked, heard, latest, stream, text, pending, result, entry, character, files,
                   selected0>>

-----------------------------------------------------------------------------
(* Interrupts. *)

\* KeyboardInterrupt inside listen(): the generator returns and the loop ends
InterruptListening ==
    /\ pc \in {"Listening", "Decoding"}
    /\ pc' = "Stopped" /\ stopCause' = "interrupt"
    /\ UNCHANGED <<prog, asked, heard, latest, stream, text, pending, result, entry, character, files,
                   log, selected0>>

\* KeyboardInterrupt in the loop body or at startup: nothing catches it
InterruptBusy ==
    /\ pc \in {"Start", "Routing", "Dispatching", "Responding"}
    /\ pc' = "Stopped" /\ stopCause' = "interrupt"
    /\ UNCHANGED <<prog, asked, heard, latest, stream, text, pending, result, entry, character, files,
                   log, selected0>>

-----------------------------------------------------------------------------

NoFiles == [p \in {} |-> PyNone]

Init ==
    /\ prog \in {"Extra", "Lab10", "main1"}
    /\ pc = "Start"
    /\ stream = [opened |-> 0, closed |-> 0]
    /\ text = <<>>
    /\ pending = NoCommand
    /\ result = NoResult
    /\ entry = PyNone
    /\ character = PyNone
    /\ files = NoFiles
    /\ log = <<>>
    /\ selected0 = PyNone
    /\ stopCause = ""
    /\ heard = PyNone
    /\ latest = PyNone
    /\ asked = NoAnswers

Next ==
    \/ Extra_Start
    \/ Extra_Read
    \/ Extra_Listen
    \/ Extra_Route
    \/ Extra_Dispatch
    \/ Extra_Respond
    \/ Lab10_Start
    \/ Lab10_Read
    \/ Lab10_Listen
    \/ Lab10_Route
    \/ Lab10_Dispatch
    \/ Lab10_Respond
    \/ Main1_Start
    \/ Main1_Read
    \/ Main1_Listen
    \/ Main1_Route
    \/ InterruptListening
    \/ InterruptBusy

Spec == Init /\ [][Next]_vars

-----------------------------------------------------------------------------
(* Properties. *)

Goodbye ==
    CASE prog = "Extra" -> Msg("Goodbye!")
      [] prog = "Lab10" -> Msg("Do skoryh vstrech!")
      [] prog = "main1" -> Msg("Byvai, ihtiandr")

\* The loop has answered the current utterance with this one message and
\* nothing else, or is about to, or was interrupted before it could.
AnsweredOnlyWith(msg) ==
    /\ pc \in {"Routing", "Listening", "Stopped"}
    /\ pc = "Routing" => log = <<>>
    /\ pc = "Listening" => log = <<Speak(msg)>>
    /\ pc = "Stopped" => stopCause = "interrupt" /\ log \in {<<>>, <<Speak(msg)>>}
    /\ pending = NoCommand

\* C1: in the dictionary session, an utterance that neither starts with a
\* trigger prefix nor is a phrase of the alias table is answered with the
\* unknown-command message alone: no handler is called, the entry stays what
\* it was and the loop listens again.
C1_Case ==
    /\ prog = "Extra" /\ text # <<>>
    /\ ~StartsWith(text, W_find \o <<" ">>)
    /\ ~StartsWith(text, W_naiti \o <<" ">>)
    /\ text \notin {W_save, W_sohranit, W_meaning, W_znachenie, W_example, W_primer,
                    W_link, W_ssylka, W_exit, W_vyhod, W_quit}

C1_UnknownIsNotDispatched ==
    C1_Case => AnsweredOnlyWith(UnknownMsg) /\ entry = selected0

C1_Witness ==
    /\ C1_Case /\ pc = "Listening" /\ log = <<Speak(UnknownMsg)>>
    /\ entry = E_hello /\ text = W_hello \o <<" ">> \o W_exit

\* C2: in each of the three loops, hearing an exit alias makes the loop speak
\* the goodbye message and stop, whatever is selected; once stopped, the loop
\* takes no further step (no dispatch, no read).
C2_Case ==
    \/ prog = "Extra" /\ text \in {W_exit, W_quit, W_vyhod}
    \/ prog = "Lab10" /\ text = W_vyhod
    \/ prog = "main1" /\ text = W_zakryt

C2_ExitStops ==
    [][ /\ pc # "Stopped"
        /\ (C2_Case /\ pc = "Routing") =>
              /\ pc' = "Stopped"
              /\ \/ stopCause' = "exit" /\ log' = <<Speak(Goodbye)>>
                 \/ stopCause' = "interrupt" /\ log' = log
              /\ pending' = NoCommand /\ entry' = entry /\ character' = character
      ]_vars

C2_Witness ==
    /\ prog = "Extra" /\ text = W_quit /\ entry = E_hello
    /\ pc = "Stopped" /\ stopCause = "exit" /\ log = <<Speak(Msg("Goodbye!"))>>

\* C3: in the dictionary session, the word looked up is the remainder of the
\* utterance after its leading trigger prefix, stripped.
C3_Remainder(t) ==
    IF StartsWith(t, W_find \o <<" ">>) THEN Strip(SubSeq(t, 6, Len(t)))
    ELSE Strip(SubSeq(t, 7, Len(t)))

C3_LookupWordIsRemainder ==
    (prog = "Extra" /\ pending.cmd = "lookup") =>
        pending.param = PyStr(C3_Remainder(text))

\* C4: in the character session, an utterance equal to a phrase of the alias
\* table is dispatched to the handler of that phrase's canonical command.
C4_AliasReachesItsHandler ==
    (prog = "Lab10" /\ text \in DOMAIN COMMANDS_Lab10 /\ pending.cmd # "") =>
        pending.cmd = COMMANDS_Lab10[text]

C5_Keywords ==
    {W_sluchainyi, W_sohranit, W_epizod, W_pokazat, W_razreshenie,
     W_proishozhdenie, W_lokaciya, W_spisok_epizodov, W_vyhod, W_proshchayus}

C5_Case ==
    /\ prog = "Lab10" /\ text # <<>>
    /\ \A k \in C5_Keywords : ~Contains(Lower(text), k)

C6_Message == IF prog = "Extra" THEN Msg("No word selected.") ELSE NotSelected

C6_Dependent ==
    IF prog = "Extra" THEN {"save", "meaning", "example", "link"}
    ELSE {"save", "first_ep", "show_img", "resolution", "origin", "location",
          "list_eps"}

C6_Case ==
    /\ prog \in {"Extra", "Lab10"}
    /\ selected0 = PyNone /\ pending.cmd \in C6_Dependent

C6_Refusal(failure, msg) == { Outcome(<<failure, msg>>, PyNone, files, <<>>, "") }

C6_NothingSelectedIsAnswered ==
    /\ pc = "Dispatching" =>
         /\ save(PyNone, files) = C6_Refusal(PyFalse, Msg("No word selected."))
         /\ \A h \in {"meaning", "example", "link"} :
              Extra_Handler([cmd |-> h, param |-> PyNone], PyNone, files)
                = C6_Refusal(PyNone, Msg("No word selected."))
         /\ \A h \in {"save", "first_ep", "show_img", "resolution", "origin",
                      "location", "list_eps"} :
              Lab10_Handler([cmd |-> h, param |-> PyNone], PyNone, files)
                = C6_Refusal(PyNone, NotSelected)
    /\ C6_Case =>
         /\ entry = PyNone /\ character = PyNone
         /\ pc \in {"Dispatching", "Responding", "Listening", "Stopped"}
         /\ pc = "Dispatching" => log = <<>>
         /\ pc = "Responding" =>
              /\ ~Truthy(result[1]) /\ result[2] = C6_Message
              /\ log = <<Call(pending.cmd, PyNone)>>
         /\ pc = "Listening" =>
              log = <<Call(pending.cmd, PyNone), Speak(C6_Message)>>
         /\ pc = "Stopped" => stopCause = "interrupt"

C6_Witness ==
    /\ C6_Case /\ prog = "Lab10" /\ pending.cmd = "first_ep"
    /\ pc = "Listening"
    /\ log = <<Call("first_ep", PyNone), Speak(NotSelected)>>

\* C7: the loop stops only through an exit command or an interrupt (or never
\* starts): a failure of a handler's external call never stops it.
C7_OnlyExitOrInterruptStops ==
    pc = "Stopped" => stopCause \in {"exit", "interrupt", "fatal"}

\* C8: every speak call gets a string.
C8_SpeakGetsText ==
    \A i \in 1..Len(log) : log[i].ev = "speak" => log[i].arg.py = "str"

\* C9: a side effect (the link opened, the image shown) comes after the
\* message of its command was spoken.
C9_SpokenBeforeSideEffect ==
    \A i \in 1..Len(log) :
        log[i].ev \in {"open", "show"} =>
            \E j \in 1..(i - 1) : log[j].ev = "speak"

\* C10: the audio stream is opened once and, when the session has ended,
\* closed exactly once.
C10_StreamClosedOnce ==
    /\ stream.opened <= 1
    /\ (pc = "Stopped" /\ stream.opened = 1) => stream.closed = 1

\* C11: a query (meaning, example, link) that is asked again with no lookup
\* in between returns what it returned before, the same definitions, example,
\* link or error message, and no query changes the selected entry.
C11_Case == prog = "Extra" /\ pc = "Responding" /\ pending.cmd \in Queries

C11_RepeatedQueryAnswersTheSame ==
    C11_Case =>
        /\ entry = selected0
        /\ pending.cmd \in DOMAIN asked => result = asked[pending.cmd]

\* meaning is asked again after example and link were asked, of an entry
\* that has definitions
C11_Witness ==
    /\ C11_Case
    /\ pending.cmd = "meaning"
    /\ DOMAIN asked = Queries
    /\ Truthy(result[1])

\* json.load of a document: what a reader of the file gets back
RECURSIVE C12_ReadBack(_)
C12_ReadBack(j) ==
    CASE j.json = "object" ->
           [py |-> "dict", v |-> [k \in DOMAIN j.members |-> C12_ReadBack(j.members[k])]]
      [] j.json = "array" ->
           [py |-> "list", v |-> [i \in 1..Len(j.items) |-> C12_ReadBack(j.items[i])]]
      [] j.json = "string" -> [py |-> "str", v |-> j.chars]
      [] j.json = "number" -> [py |-> "int", v |-> j.digits]
      [] j.json = "true" -> [py |-> "bool", v |-> TRUE]
      [] j.json = "false" -> [py |-> "bool", v |-> FALSE]
      [] j.json = "null" -> [py |-> "None"]

\* the file of an entry: dictionary_entries/<word>.json
C12_Path(e) ==
    PyStr(<<"dictionary_entries/">> \o Format(Get(e, "word", Msg("entry")))
          \o <<".json">>)

\* save is called, and returns, after a lookup has succeeded
C12_Saves ==
    /\ prog = "Extra" /\ pc = "Dispatching" /\ pending.cmd = "save"
    /\ latest # PyNone
    /\ pc' = "Responding"

\* C12: after a successful lookup, save writes a file named after the
\* entry's word whose content, read back, is the fetched entry; a file the
\* word already had is overwritten, and the files of other words are left as
\* they were.
C12_SavedFileIsTheEntry ==
    [][ C12_Saves =>
          LET path == C12_Path(latest) IN
          /\ DOMAIN files' = DOMAIN files \cup {path}
          /\ C12_ReadBack(files'[path]) = latest
          /\ \A q \in DOMAIN files \ {path} : files'[q] = files[q] ]_vars

\* what the loop body does for the utterance it was given, from the call of
\* the handler to the last word spoken, is all in the log
C13_Done ==
    IF text = <<>> THEN TRUE
    ELSE IF pending.cmd = ""
    THEN log = <<IF prog = "Extra" THEN Speak(UnknownMsg)
                 ELSE IF prog = "Lab10" THEN Speak(NotRecognized)
                 ELSE Ev("print", PyStr(text))>>
    ELSE LET r == IF prog = "Extra" THEN Extra_Render(pending, result)
                  ELSE Lab10_Render(pending, result).events
             n == Len(log) - Len(r)
         IN  /\ n >= 1
             /\ log[1] = Call(pending.cmd, pending.param)
             /\ SubSeq(log, n + 1, Len(log)) = r

\* C13: the loop is sequential.  The stream is read again only when the
\* loop body is done with the utterance yielded before, everything spoken
\* and every side effect made, and an utterance is yielded only when none is
\* being processed.
C13_OneUtteranceAtATime ==
    [][ /\ pc' = "Decoding" => pc = "Listening" /\ C13_Done
        /\ text' # text /\ text' # <<>> =>
              pc = "Decoding" /\ text = <<>> /\ pending = NoCommand /\ log = <<>>
      ]_vars

\* the stream is about to be read again after a link was opened and spoken
C13_Witness ==
    /\ prog = "Extra" /\ pc = "Listening" /\ pending.cmd = "link"
    /\ Len(log) = 3 /\ log[2].ev = "open" /\ log[3].ev = "speak"

\* t is raw without the blanks around it: raw is blanks, then t, then blanks,
\* and t neither starts nor ends with a blank.  The dictionary assistant
\* yields it in lower case.
C14_IsTextOf(t, raw) ==
    /\ t # <<>> /\ ~IsSpace(t[1]) /\ ~IsSpace(t[Len(t)])
    /\ \E i \in 1..Len(raw) :
         /\ i + Len(t) - 1 <= Len(raw)
         /\ LET part == SubSeq(raw, i, i + Len(t) - 1)
            IN  t = IF prog = "Extra" THEN Lower(part) ELSE part
         /\ \A k \in 1..Len(raw) : k < i \/ k > i + Len(t) - 1 => IsSpace(raw[k])

C14_Blank(raw) == \A k \in 1..Len(raw) : IsSpace(raw[k])

\* C14: Recognizer.listen yields the finalized results that are not blank,
\* each as soon as it is heard and so in the order of their frames: a frame
\* that finalizes nothing and a result whose text is empty or blank yield
\* nothing, and the text of every other result is yielded, stripped, before
\* the next frame is read.
C14_YieldsTheFinalizedTexts ==
    prog \in {"Extra", "Lab10"} /\ pc \notin {"Start", "Decoding"} =>
        IF heard = PyNone \/ C14_Blank(heard.v)
        THEN text = <<>> /\ pc \in {"Listening", "Stopped"}
        ELSE C14_IsTextOf(text, heard.v)

\* a phrase heard with blanks around it was yielded stripped
C14_Witness ==
    /\ prog = "Extra" /\ pc = "Routing"
    /\ heard = PyStr(Padded(W_exit)) /\ text = W_exit

C15_Triggered == StartsWith(text, TriggerFind) \/ StartsWith(text, TriggerNaiti)

\* the loop body has chosen what to do with the utterance
C15_Routed == pc \in {"Dispatching", "Responding"} \/ (pc = "Listening" /\ text # <<>>)

C15_Called(fns) == \E i \in 1..Len(log) : log[i].ev \in fns

\* C15: in the dictionary assistant an utterance that starts with 'find ' or
\* 'naiti ' is a lookup and nothing else, whatever follows the prefix: no
\* alias handler runs for it, it is not called unknown and it does not end
\* the session.  The bare words 'find' and 'naiti' are never a lookup.
C15_TriggerBeforeAlias ==
    prog = "Extra" =>
        /\ C15_Triggered =>
              /\ stopCause # "exit"
              /\ pending.cmd \in {"", "lookup"}
              /\ C15_Routed => pending.cmd = "lookup"
              /\ ~C15_Called({"save", "meaning", "example", "link"})
              /\ \A i \in 1..Len(log) :
                    log[i] \notin {Speak(UnknownMsg), Speak(Msg("Goodbye!"))}
        /\ text \in {W_find, W_naiti} =>
              /\ pending.cmd = ""
              /\ ~C15_Called({"lookup", "http"})
              /\ C15_Routed => log = <<Speak(UnknownMsg)>>

\* 'find exit' was looked up, and the loop listens on
C15_Witness ==
    /\ prog = "Extra" /\ pc = "Listening"
    /\ text = W_find \o <<" ">> \o W_exit
    /\ pending = [cmd |-> "lookup", param |-> PyStr(W_exit)]
    /\ C15_Called({"lookup"})

\* the commands the claim names as answering from the selection
C16_Dependent ==
    IF prog = "Extra" THEN {"meaning", "example", "link", "save"}
    ELSE {"origin", "location", "save"}

\* what a handler returns when it runs on the selection sel
C16_AnswersFrom(sel) ==
    { o.ret : o \in { h \in (IF prog = "Extra" THEN Extra_Handler(pending, sel, files)
                                ELSE Lab10_Handler(pending, sel, files))
                         : h.raised = "" } }

\* C16: there is one selection, the record the most recent successful lookup
\* got from the service, and meaning, example, link and save (origin,
\* location and save_image in Lab_10.py) answer from that record, not from
\* one selected earlier.
C16_LatestSelectionAnswers ==
    prog \in {"Extra", "Lab10"} /\ pc # "Stopped" =>
        /\ (IF prog = "Extra" THEN entry ELSE character) = latest
        /\ pc = "Responding" /\ pending.cmd \in C16_Dependent =>
              result \in C16_AnswersFrom(latest)

\* meaning is answered from the record of the second lookup, the record of
\* the first one being in a file
C16_Witness ==
    /\ prog = "Extra" /\ pc = "Responding" /\ pending.cmd = "meaning"
    /\ latest = E_noword
    /\ C12_Path(E_hello) \in DOMAIN files
    /\ files[C12_Path(E_hello)] = JsonDump(E_hello)
    /\ Truthy(result[1])

\* a lookup has returned its failure: (False, message) from find_word,
\* (None, message) from random_character
C17_LookupFailed ==
    /\ pc = "Responding"
    /\ \/ prog = "Extra" /\ pending.cmd = "lookup" /\ result[1] = PyFalse
       \/ prog = "Lab10" /\ pending.cmd = "random"
            /\ result[1] = PyNone /\ result[2] # PyNone

\* C17: a lookup that fails leaves the selection, set or unset, exactly as
\* it was before the call.
C17_FailedLookupKeepsSelection ==
    C17_LookupFailed =>
        (IF prog = "Extra" THEN entry ELSE character) = selected0

\* a random character could not be fetched while one was selected
C17_Witness ==
    /\ C17_LookupFailed /\ prog = "Lab10"
    /\ selected0 = Ch_rick /\ character = Ch_rick
    /\ result = <<PyNone, ErrText>>

\* C18: once a lookup has succeeded, find_word having returned (True, None)
\* and the word having been reported as found, no later meaning, example,
\* link or save answers 'No word selected.', whatever body the lookup
\* accepted.
C18_FoundIsSelected ==
    /\ prog = "Extra" /\ latest # PyNone
    /\ pc = "Responding" /\ pending.cmd \in {"meaning", "example", "link", "save"}
    => result[2] # Msg("No word selected.")

\* the methods of the two service objects, as the log names their calls
C19_Handlers ==
    IF prog = "Extra" THEN {"lookup", "save", "meaning", "example", "link"}
    ELSE {"random", "save", "first_ep", "list_eps", "show_img", "resolution",
          "origin", "location"}

C19_Invocations == Len(SelectSeq(log, LAMBDA e : e.ev \in C19_Handlers))

\* the exit keywords of the loop that runs, and its other command keywords
C19_ExitKeywords ==
    IF prog = "Extra" THEN { k \in DOMAIN COMMANDS_Extra : COMMANDS_Extra[k] = "exit" }
    ELSE {W_vyhod, W_proshchayus}

C19_OtherKeywords ==
    IF prog = "Extra" THEN DOMAIN COMMANDS_Extra \ C19_ExitKeywords
    ELSE C5_Keywords \ C19_ExitKeywords

C19_Has(keywords) == \E k \in keywords : Contains(Lower(text), k)

C19_ExitAndOther == C19_Has(C19_ExitKeywords) /\ C19_Has(C19_OtherKeywords)

\* C19 as stated: an utterance causes at most one handler invocation, and
\* none at all when it contains an exit keyword together with another command
\* keyword.
C19_ExitWithKeywordCallsNothing ==
    prog \in {"Extra", "Lab10"} =>
        /\ C19_Invocations <= 1
        /\ C19_ExitAndOther => C19_Invocations = 0

\* C19: an utterance causes at most one handler invocation.  With an exit
\* keyword and another command keyword in it, it causes none at all, except
\* in Extra_.py when it starts with a trigger prefix: then it is a lookup,
\* and no alias handler runs.
C19_AtMostOneHandler ==
    prog \in {"Extra", "Lab10"} =>
        /\ C19_Invocations <= 1
        /\ IF prog = "Extra" /\ C15_Triggered
           THEN C19_ExitAndOther =>
                  /\ ~C15_Called({"save", "meaning", "example", "link"})
                  /\ pc \in {"Responding", "Listening"} => C19_Invocations = 1
           ELSE C19_Invocations = 0 \/ ~C19_ExitAndOther

\* 'sluchainyi vyhod' has ended the character session with no call
C19_Witness ==
    /\ prog = "Lab10" /\ pc = "Stopped" /\ stopCause = "exit"
    /\ text = W_sluchainyi \o <<" ">> \o W_vyhod
    /\ C19_ExitAndOther
    /\ C19_Invocations = 0

=============================================================================
